---------------------------- MODULE Spec2Model ----------------------------
(***************************************************************************)
(* sqlitebp: opening a SQLite database with best-practice defaults.        *)
(*                                                                         *)
(* The model follows openWithMode: the filename check, the application of  *)
(* the option mutators onto an openConfig, the merge of the defaults, the  *)
(* mode adjustment, the registration of a driver whose ConnectHook runs    *)
(* the per-connection statements, the DSN, the pool sizing and the ping.   *)
(* database/sql's pool and the SQLite engine are the environment: a pool   *)
(* user (the ping of the open call, later the callers of the handle) takes *)
(* an idle connection or opens a new one, on which the hook runs first.    *)
(***************************************************************************)
EXTENDS Integers, Sequences, FiniteSets, TLC

(***************************************************************************)
(* Go strings.  A string is a TLA+ string; Chars gives its bytes, for the  *)
(* operations that look inside one (strings.ToUpper, strings.ContainsAny,  *)
(* the byte-wise order of sort.Strings).                                   *)
(***************************************************************************)
Digits == << "0", "1", "2", "3", "4", "5", "6", "7", "8", "9" >>

UpperCase ==
    << "A", "B", "C", "D", "E", "F", "G", "H", "I", "J", "K", "L", "M",
       "N", "O", "P", "Q", "R", "S", "T", "U", "V", "W", "X", "Y", "Z" >>

LowerCase ==
    << "a", "b", "c", "d", "e", "f", "g", "h", "i", "j", "k", "l", "m",
       "n", "o", "p", "q", "r", "s", "t", "u", "v", "w", "x", "y", "z" >>

Punctuation ==
    ("#" :> 35) @@ ("&" :> 38) @@ ("-" :> 45) @@ ("." :> 46) @@ (":" :> 58) @@
    ("=" :> 61) @@ ("?" :> 63) @@ ("_" :> 95)

IndexOf(seq, c) == CHOOSE k \in DOMAIN seq : seq[k] = c

\* the ASCII code of a byte
Ord ==
    Punctuation
    @@ [c \in {Digits[k] : k \in DOMAIN Digits} |-> 47 + IndexOf(Digits, c)]
    @@ [c \in {UpperCase[k] : k \in DOMAIN UpperCase} |-> 64 + IndexOf(UpperCase, c)]
    @@ [c \in {LowerCase[k] : k \in DOMAIN LowerCase} |-> 96 + IndexOf(LowerCase, c)]

\* unicode.ToUpper on one ASCII byte
UpperChar(c) ==
    IF \E k \in DOMAIN LowerCase : LowerCase[k] = c
    THEN UpperCase[IndexOf(LowerCase, c)]
    ELSE c
Chars ==
     ("" :> <<>>) @@
     ("a?b.db" :> <<"a", "?", "b", ".", "d", "b">>) @@
     ("a#b.db" :> <<"a", "#", "b", ".", "d", "b">>) @@
     ("app.db" :> <<"a", "p", "p", ".", "d", "b">>) @@
     ("new.db" :> <<"n", "e", "w", ".", "d", "b">>) @@
     ("wal" :> <<"w", "a", "l">>) @@
     ("WAL" :> <<"W", "A", "L">>) @@
     ("DELETE" :> <<"D", "E", "L", "E", "T", "E">>) @@
     ("bogus" :> <<"b", "o", "g", "u", "s">>) @@
     ("BOGUS" :> <<"B", "O", "G", "U", "S">>) @@
     ("full" :> <<"f", "u", "l", "l">>) @@
     ("FULL" :> <<"F", "U", "L", "L">>) @@
     ("file" :> <<"f", "i", "l", "e">>) @@
     ("FILE" :> <<"F", "I", "L", "E">>) @@
     ("MEMORY" :> <<"M", "E", "M", "O", "R", "Y">>) @@
     ("fast" :> <<"f", "a", "s", "t">>) @@
     ("FAST" :> <<"F", "A", "S", "T">>) @@
     ("NORMAL" :> <<"N", "O", "R", "M", "A", "L">>) @@
     ("_busy_timeout" :> <<"_", "b", "u", "s", "y", "_", "t", "i", "m", "e", "o", "u", "t">>) @@
     ("_cache_size" :> <<"_", "c", "a", "c", "h", "e", "_", "s", "i", "z", "e">>) @@
     ("_journal_mode" :> <<"_", "j", "o", "u", "r", "n", "a", "l", "_", "m", "o", "d", "e">>) @@
     ("_synchronous" :> <<"_", "s", "y", "n", "c", "h", "r", "o", "n", "o", "u", "s">>) @@
     ("_foreign_keys" :> <<"_", "f", "o", "r", "e", "i", "g", "n", "_", "k", "e", "y", "s">>) @@
     ("_mmap_size" :> <<"_", "m", "m", "a", "p", "_", "s", "i", "z", "e">>) @@
     ("_case_sensitive_like" :> <<"_", "c", "a", "s", "e", "_", "s", "e", "n", "s", "i", "t", "i", "v", "e", "_", "l", "i", "k", "e">>) @@
     ("_recursive_triggers" :> <<"_", "r", "e", "c", "u", "r", "s", "i", "v", "e", "_", "t", "r", "i", "g", "g", "e", "r", "s">>) @@
     ("_secure_delete" :> <<"_", "s", "e", "c", "u", "r", "e", "_", "d", "e", "l", "e", "t", "e">>) @@
     ("cache" :> <<"c", "a", "c", "h", "e">>) @@
     ("mode" :> <<"m", "o", "d", "e">>) @@
     ("temp_store" :> <<"t", "e", "m", "p", "_", "s", "t", "o", "r", "e">>) @@
     ("private" :> <<"p", "r", "i", "v", "a", "t", "e">>) @@
     ("true" :> <<"t", "r", "u", "e">>) @@
     ("false" :> <<"f", "a", "l", "s", "e">>) @@
     ("10000" :> <<"1", "0", "0", "0", "0">>) @@
     ("0" :> <<"0">>) @@
     ("30000" :> <<"3", "0", "0", "0", "0">>) @@
     ("-32768" :> <<"-", "3", "2", "7", "6", "8">>) @@
     ("-65536" :> <<"-", "6", "5", "5", "3", "6">>) @@
     ("4096" :> <<"4", "0", "9", "6">>) @@
     ("-0" :> <<"-", "0">>) @@
     ("1000" :> <<"1", "0", "0", "0">>) @@
     ("-1000" :> <<"-", "1", "0", "0", "0">>) @@
     ("-1024" :> <<"-", "1", "0", "2", "4">>) @@
     ("32000" :> <<"3", "2", "0", "0", "0">>) @@
     ("--1024" :> <<"-", "-", "1", "0", "2", "4">>) @@
     ("-30720" :> <<"-", "3", "0", "7", "2", "0">>) @@
     ("2097151000" :> <<"2", "0", "9", "7", "1", "5", "1", "0", "0", "0">>) @@
     ("2097152000" :> <<"2", "0", "9", "7", "1", "5", "2", "0", "0", "0">>) @@
     ("4194304000" :> <<"4", "1", "9", "4", "3", "0", "4", "0", "0", "0">>) @@
     ("-2147482624" :> <<"-", "2", "1", "4", "7", "4", "8", "2", "6", "2", "4">>) @@
     ("--2147483648" :> <<"-", "-", "2", "1", "4", "7", "4", "8", "3", "6", "4", "8">>) @@
     ("2147483647000" :> <<"2", "1", "4", "7", "4", "8", "3", "6", "4", "7", "0", "0", "0">>) @@
     ("-2199023254528" :> <<"-", "2", "1", "9", "9", "0", "2", "3", "2", "5", "4", "5", "2", "8">>) @@
     ("-432345564227567616" :> <<"-", "4", "3", "2", "3", "4", "5", "5", "6", "4", "2", "2", "7", "5", "6", "7", "6", "1", "6">>) @@
     ("9007199254740991000" :> <<"9", "0", "0", "7", "1", "9", "9", "2", "5", "4", "7", "4", "0", "9", "9", "1", "0", "0", "0">>) @@
     ("9007199254740992000" :> <<"9", "0", "0", "7", "1", "9", "9", "2", "5", "4", "7", "4", "0", "9", "9", "2", "0", "0", "0">>) @@
     ("9223372036854775000" :> <<"9", "2", "2", "3", "3", "7", "2", "0", "3", "6", "8", "5", "4", "7", "7", "5", "0", "0", "0">>) @@
     ("-9223372036854774784" :> <<"-", "9", "2", "2", "3", "3", "7", "2", "0", "3", "6", "8", "5", "4", "7", "7", "4", "7", "8", "4">>) @@
     ("-9223372036854775616" :> <<"-", "9", "2", "2", "3", "3", "7", "2", "0", "3", "6", "8", "5", "4", "7", "7", "5", "6", "1", "6">>) @@
     ("--9002011107970260992" :> <<"-", "-", "9", "0", "0", "2", "0", "1", "1", "1", "0", "7", "9", "7", "0", "2", "6", "0", "9", "9", "2">>) @@
     ("--9002011107970262016" :> <<"-", "-", "9", "0", "0", "2", "0", "1", "1", "1", "0", "7", "9", "7", "0", "2", "6", "2", "0", "1", "6">>) @@
     ("--9223372036854775808" :> <<"-", "-", "9", "2", "2", "3", "3", "7", "2", "0", "3", "6", "8", "5", "4", "7", "7", "5", "8", "0", "8">>) @@
     ("ro" :> <<"r", "o">>) @@
     ("rw" :> <<"r", "w">>) @@
     ("rwc" :> <<"r", "w", "c">>)

Str(cs) == CHOOSE s \in DOMAIN Chars : Chars[s] = cs

\* strings.ToUpper
ToUpper(s) == Str([k \in DOMAIN Chars[s] |-> UpperChar(Chars[s][k])])

\* strings.ContainsAny(s, chars)
\* a check of the first byte only
ContainsAnyFirstByte(s, chars) == Chars[s] # << >> /\ Chars[s][1] \in chars

ContainsAny(s, chars) == \E k \in DOMAIN Chars[s] : Chars[s][k] \in chars

\* the byte-wise order a < b of two byte sequences (the order < of Go strings)
BytesLess(a, b) ==
    \E k \in 1..(Len(a) + 1) :
        /\ \A j \in 1..(k - 1) : j <= Len(b) /\ a[j] = b[j]
        /\ k <= Len(b)
        /\ (k = Len(a) + 1 \/ Ord[a[k]] < Ord[b[k]])

\* fmt.Sprintf("%q", s) of a string without special characters
Quote(s) == "\"" \o s \o "\""

(***************************************************************************)
(* Go integers.  An int or int64 is its two's complement bit pattern, a    *)
(* sequence of 16-bit limbs, least significant first: two limbs for the    *)
(* int of a 32-bit platform, four for int64 and for the int of a 64-bit    *)
(* platform.  Arithmetic wraps at the width of its operand, as in Go.      *)
(***************************************************************************)
Limb == 65536

IntSize(w) == 16 * Len(w)

IsZero(w) == \A i \in DOMAIN w : w[i] = 0

\* w < 0: the sign bit is set
IsNeg(w) == w[Len(w)] >= Limb \div 2

\* w * k, for a small k >= 0, at the width of w
RECURSIVE MulCarry(_, _, _)
MulCarry(w, k, carry) ==
    IF w = << >> THEN << >>
    ELSE LET t == Head(w) * k + carry
         IN  << t % Limb >> \o MulCarry(Tail(w), k, t \div Limb)

Mul(w, k) == MulCarry(w, k, 0)

RECURSIVE AddCarry(_, _)
AddCarry(w, carry) ==
    IF w = << >> THEN << >>
    ELSE LET t == Head(w) + carry
         IN  << t % Limb >> \o AddCarry(Tail(w), t \div Limb)

\* -w, at the width of w
Neg(w) == AddCarry([i \in DOMAIN w |-> Limb - 1 - w[i]], 1)

\* int64(w): sign extension
Int64(w) ==
    LET ext == IF IsNeg(w) THEN Limb - 1 ELSE 0
    IN  w \o [i \in 1..(4 - Len(w)) |-> ext]

\* the int64 of a small integer of the model
GoInt(n) ==
    LET m == IF n < 0 THEN -n ELSE n
        u == << m % Limb, (m \div Limb) % Limb, 0, 0 >>
    IN  IF n < 0 THEN Neg(u) ELSE u

\* the int of a 32-bit platform of a small integer of the model
GoInt32(n) == SubSeq(GoInt(n), 1, 2)

\* the unsigned w divided by a small d
RECURSIVE DivMod(_, _)
DivMod(w, d) ==
    IF w = << >> THEN [quot |-> << >>, rem |-> 0]
    ELSE LET hi == DivMod(Tail(w), d)
             cur == hi.rem * Limb + Head(w)
         IN  [quot |-> << cur \div d >> \o hi.quot, rem |-> cur % d]

\* the decimal digits of the unsigned w, most significant first
RECURSIVE DecimalDigits(_)
DecimalDigits(w) ==
    IF IsZero(w) THEN << >>
    ELSE LET qr == DivMod(w, 10) IN DecimalDigits(qr.quot) \o << qr.rem >>

RECURSIVE DigitString(_)
DigitString(ds) == IF ds = << >> THEN "" ELSE ToString(Head(ds)) \o DigitString(Tail(ds))

\* fmt.Sprintf("%d", w)
FormatInt(w) ==
    IF IsZero(w) THEN "0"
    ELSE IF IsNeg(w) THEN "-" \o DigitString(DecimalDigits(Neg(w)))
    ELSE DigitString(DecimalDigits(w))

(***************************************************************************)
(* Go maps, as functions on their key sets.                                *)
(***************************************************************************)
EmptyMap == [k \in {} |-> ""]

Has(m, k) == k \in DOMAIN m

Put(m, k, v) == [x \in DOMAIN m \cup {k} |-> IF x = k THEN v ELSE m[x]]

Delete(m, k) == [x \in DOMAIN m \ {k} |-> m[x]]

(***************************************************************************)
(* Errors: the sentinel an error wraps (kind), its detail, and the         *)
(* sentinel of the error it wraps in turn (cause).                         *)
(***************************************************************************)
NoErr == [kind |-> "nil", msg |-> "", cause |-> ""]

Err(kind, msg) == [kind |-> kind, msg |-> msg, cause |-> ""]

Wrap(kind, msg, inner) == [kind |-> kind, msg |-> msg, cause |-> inner.kind]

ErrEmptyFilename == Err("ErrEmptyFilename", "sqlitebp: filename cannot be empty")

ErrInvalidConfigOption(msg) == Err("ErrInvalidConfigOption", msg)

(***************************************************************************)
(* openConfig and the option mutators (options.go).  A mutator applied to  *)
(* a config c yields the config it leaves behind and the error it returns. *)
(***************************************************************************)
NewConfig == [params |-> EmptyMap, pragmas |-> EmptyMap, disableOptimize |-> FALSE]

Ok(c) == [cfg |-> c, err |-> NoErr]

Fail(c, e) == [cfg |-> c, err |-> e]

SetParam(c, k, v) == [c EXCEPT !.params = Put(c.params, k, v)]

SetPragma(c, k, v) == [c EXCEPT !.pragmas = Put(c.pragmas, k, v)]

BoolString(b) == IF b THEN "true" ELSE "false"

\* an optimize switch that, once set to disabled, stays there
WithOptimizeSticky(enabled, c) ==
    Ok([c EXCEPT !.disableOptimize = c.disableOptimize \/ ~enabled])

WithOptimize(enabled, c) == Ok([c EXCEPT !.disableOptimize = ~enabled])

WithBusyTimeoutSeconds(sec, c) ==
    IF IsNeg(sec) THEN Fail(c, ErrInvalidConfigOption("busy timeout must be >= 0"))
    ELSE IF Has(c.params, "_busy_timeout")
    THEN Fail(c, ErrInvalidConfigOption("_busy_timeout already specified"))
    ELSE Ok(SetParam(c, "_busy_timeout", FormatInt(Mul(Int64(sec), 1000))))

WithCacheSizeMiB(mib, c) ==
    IF IsNeg(mib) \/ IsZero(mib) THEN Fail(c, ErrInvalidConfigOption("cache size must be > 0"))
    ELSE IF Has(c.params, "_cache_size")
    THEN Fail(c, ErrInvalidConfigOption("_cache_size already specified"))
    ELSE Ok(SetParam(c, "_cache_size", "-" \o FormatInt(Int64(Mul(mib, 1024)))))

JournalModes == {"WAL", "DELETE", "TRUNCATE", "PERSIST", "MEMORY", "OFF"}

\* the journal mode taken as given, without the check against the valid modes
WithJournalModeUnchecked(mode, c) ==
    IF Has(c.params, "_journal_mode")
    THEN Fail(c, ErrInvalidConfigOption("_journal_mode already specified"))
    ELSE Ok(SetParam(c, "_journal_mode", ToUpper(mode)))

WithJournalMode(mode, c) ==
    IF Has(c.params, "_journal_mode")
    THEN Fail(c, ErrInvalidConfigOption("_journal_mode already specified"))
    ELSE LET m == ToUpper(mode) IN
         IF m \in JournalModes THEN Ok(SetParam(c, "_journal_mode", m))
         ELSE Fail(c, ErrInvalidConfigOption("invalid journal mode " \o Quote(mode)))

SynchronousLevels == {"OFF", "NORMAL", "FULL", "EXTRA"}

WithSynchronous(level, c) ==
    IF Has(c.params, "_synchronous")
    THEN Fail(c, ErrInvalidConfigOption("_synchronous already specified"))
    ELSE LET l == ToUpper(level) IN
         IF l \in SynchronousLevels THEN Ok(SetParam(c, "_synchronous", l))
         ELSE Fail(c, ErrInvalidConfigOption("invalid synchronous level " \o Quote(level)))

\* a second WithForeignKeys silently overwriting the first
WithForeignKeysOverwrite(enabled, c) ==
    Ok(SetParam(c, "_foreign_keys", BoolString(enabled)))

WithForeignKeys(enabled, c) ==
    IF Has(c.params, "_foreign_keys")
    THEN Fail(c, ErrInvalidConfigOption("_foreign_keys already specified"))
    ELSE Ok(SetParam(c, "_foreign_keys", BoolString(enabled)))

TempStores == {"DEFAULT", "FILE", "MEMORY"}

\* a second WithTempStore dropped without a word, before its value is looked at
WithTempStoreFirstWins(store, c) ==
    IF Has(c.pragmas, "temp_store")
    THEN Ok(c)
    ELSE LET s == ToUpper(store) IN
         IF s \in TempStores THEN Ok(SetPragma(c, "temp_store", s))
         ELSE Fail(c, ErrInvalidConfigOption("invalid temp_store " \o Quote(store)))

WithTempStore(store, c) ==
    IF Has(c.pragmas, "temp_store")
    THEN Fail(c, ErrInvalidConfigOption("temp_store already specified"))
    ELSE LET s == ToUpper(store) IN
         IF s \in TempStores THEN Ok(SetPragma(c, "temp_store", s))
         ELSE Fail(c, ErrInvalidConfigOption("invalid temp_store " \o Quote(store)))

WithMMapSize(bytes, c) ==
    IF IsNeg(bytes) THEN Fail(c, ErrInvalidConfigOption("mmap size must be >= 0"))
    ELSE IF Has(c.params, "_mmap_size")
    THEN Fail(c, ErrInvalidConfigOption("_mmap_size already specified"))
    ELSE Ok(SetParam(c, "_mmap_size", FormatInt(bytes)))

WithCaseSensitiveLike(enabled, c) ==
    IF Has(c.params, "_case_sensitive_like")
    THEN Fail(c, ErrInvalidConfigOption("_case_sensitive_like already specified"))
    ELSE Ok(SetParam(c, "_case_sensitive_like", BoolString(enabled)))

WithRecursiveTriggers(enabled, c) ==
    IF Has(c.params, "_recursive_triggers")
    THEN Fail(c, ErrInvalidConfigOption("_recursive_triggers already specified"))
    ELSE Ok(SetParam(c, "_recursive_triggers", BoolString(enabled)))

SecureDeleteModes == {"FAST", "ON", "OFF"}

WithSecureDelete(mode, c) ==
    IF Has(c.params, "_secure_delete")
    THEN Fail(c, ErrInvalidConfigOption("_secure_delete already specified"))
    ELSE LET m == ToUpper(mode) IN
         IF m \in SecureDeleteModes THEN Ok(SetParam(c, "_secure_delete", m))
         ELSE Fail(c, ErrInvalidConfigOption("invalid secure_delete " \o Quote(mode)))

(***************************************************************************)
(* An Option value: the constructor that made it and its argument (b, n or *)
(* s by the constructor's parameter type).  NilOption is a nil Option.     *)
(***************************************************************************)
Option(name, b, n, s) == [name |-> name, b |-> b, n |-> n, s |-> s]

NilOption == Option("nil", FALSE, GoInt(0), "")

BoolOption(name, b) == Option(name, b, GoInt(0), "")

IntOption(name, n) == Option(name, FALSE, n, "")

StringOption(name, s) == Option(name, FALSE, GoInt(0), s)

\* opt(cfg): the call of an Option on a config
Apply(opt, c) ==
    CASE opt.name = "WithOptimize" -> WithOptimize(opt.b, c)
      [] opt.name = "WithBusyTimeoutSeconds" -> WithBusyTimeoutSeconds(opt.n, c)
      [] opt.name = "WithCacheSizeMiB" -> WithCacheSizeMiB(opt.n, c)
      [] opt.name = "WithJournalMode" -> WithJournalMode(opt.s, c)
      [] opt.name = "WithSynchronous" -> WithSynchronous(opt.s, c)
      [] opt.name = "WithForeignKeys" -> WithForeignKeys(opt.b, c)
      [] opt.name = "WithTempStore" -> WithTempStore(opt.s, c)
      [] opt.name = "WithMMapSize" -> WithMMapSize(opt.n, c)
      [] opt.name = "WithCaseSensitiveLike" -> WithCaseSensitiveLike(opt.b, c)
      [] opt.name = "WithRecursiveTriggers" -> WithRecursiveTriggers(opt.b, c)
      [] opt.name = "WithSecureDelete" -> WithSecureDelete(opt.s, c)

(***************************************************************************)
(* openWithMode: the configuration of one open call.                       *)
(***************************************************************************)
defaultOptions ==
    ("cache" :> "private") @@
    ("_foreign_keys" :> "true") @@
    ("_busy_timeout" :> "10000") @@
    ("_journal_mode" :> "WAL") @@
    ("_synchronous" :> "NORMAL") @@
    ("_cache_size" :> "-32768")

modeReadOnly == "ro"

modeReadWrite == "rw"

modeReadWriteCreate == "rwc"

Modes == {modeReadOnly, modeReadWrite, modeReadWriteCreate}

\* the merge of the defaults where the user options set nothing
\* a merge in which the defaults win over the values of the caller
MergeDefaultsOverwrite(c) ==
    LET params == [k \in DOMAIN defaultOptions \cup DOMAIN c.params |->
                      IF Has(defaultOptions, k) THEN defaultOptions[k] ELSE c.params[k]]
    IN  [c EXCEPT !.params = params, !.pragmas = Put(c.pragmas, "temp_store", "MEMORY")]

MergeDefaults(c) ==
    LET params == [k \in DOMAIN defaultOptions \cup DOMAIN c.params |->
                      IF Has(c.params, k) THEN c.params[k] ELSE defaultOptions[k]]
        pragmas == IF Has(c.pragmas, "temp_store") THEN c.pragmas
                   ELSE Put(c.pragmas, "temp_store", "MEMORY")
    IN  [c EXCEPT !.params = params, !.pragmas = pragmas]

\* the switch on the open mode
\* a mode switch that leaves _journal_mode in place for read-only opens
SetModeKeepJournal(c, m) == [c EXCEPT !.params = Put(c.params, "mode", m)]

\* a mode switch that asks for creation whatever the entry point
SetModeAlwaysCreate(c, m) ==
    IF m = modeReadOnly
    THEN [c EXCEPT !.params = Delete(Put(c.params, "mode", modeReadWriteCreate), "_journal_mode")]
    ELSE [c EXCEPT !.params = Put(c.params, "mode", modeReadWriteCreate)]

SetMode(c, m) ==
    IF m = modeReadOnly
    THEN [c EXCEPT !.params = Delete(Put(c.params, "mode", modeReadOnly), "_journal_mode")]
    ELSE [c EXCEPT !.params = Put(c.params, "mode", m)]

\* fmt.Sprintf("sqlite3_bp_%d_%p", time.Now().UnixNano(), cfg)
\* the option pass as a whole: for _, opt := range opts, up to the first error
RECURSIVE RunOptions(_, _)
RunOptions(seq, c) ==
    IF seq = << >> THEN Ok(c)
    ELSE IF Head(seq) = NilOption THEN RunOptions(Tail(seq), c)
    ELSE LET r == Apply(Head(seq), c) IN
         IF r.err # NoErr THEN r ELSE RunOptions(Tail(seq), r.cfg)

\* the configuration of a call with these options: option pass, merge, mode
Resolve(seq, m) ==
    LET r == RunOptions(seq, NewConfig) IN
    IF r.err # NoErr THEN r ELSE Ok(SetMode(MergeDefaults(r.cfg), m))

DriverName(nanos, ptr) == "sqlite3_bp_" \o ToString(nanos) \o "_" \o ptr

(***************************************************************************)
(* The DSN.  A range over a Go map visits the keys in an unspecified       *)
(* order: MapOrders(m) are the orders the model draws from, the first      *)
(* MapRotations rotations of a fixed unsorted order of the keys and of its *)
(* reverse.                                                                *)
(***************************************************************************)
MapRotations == 2

Min(a, b) == IF a < b THEN a ELSE b

Max(a, b) == IF a > b THEN a ELSE b

HashOrder ==
    << "mode", "_synchronous", "_case_sensitive_like", "cache", "_busy_timeout",
       "_secure_delete", "_journal_mode", "_mmap_size", "_foreign_keys",
       "_recursive_triggers", "_cache_size", "temp_store" >>

Reverse(seq) == [k \in DOMAIN seq |-> seq[Len(seq) + 1 - k]]

Rotate(seq, r) == [k \in DOMAIN seq |-> seq[((k - 1 + r) % Len(seq)) + 1]]

KeysInHashOrder(m) == SelectSeq(HashOrder, LAMBDA k : k \in DOMAIN m)

MapOrders(m) ==
    LET base == KeysInHashOrder(m) IN
    IF base = << >> THEN { << >> }
    ELSE {Rotate(base, r) : r \in 0..(Min(Len(base), MapRotations) - 1)}
         \cup {Rotate(Reverse(base), r) : r \in 0..(Min(Len(base), MapRotations) - 1)}

\* k+"="+v, kept as the pair; its string and its bytes
PairString(p) == p[1] \o "=" \o p[2]

PairBytes(p) == Chars[p[1]] \o << "=" >> \o Chars[p[2]]

RECURSIVE InsertSorted(_, _)
InsertSorted(sorted, p) ==
    IF sorted = << >> THEN << p >>
    ELSE IF BytesLess(PairBytes(p), PairBytes(Head(sorted))) THEN << p >> \o sorted
    ELSE << Head(sorted) >> \o InsertSorted(Tail(sorted), p)

\* sort.Strings
RECURSIVE SortStrings(_)
\* the pairs left in the iteration order of the map
SortStringsSkipped(seq) == seq

SortStrings(seq) ==
    IF seq = << >> THEN << >>
    ELSE InsertSorted(SortStrings(SubSeq(seq, 1, Len(seq) - 1)), seq[Len(seq)])

\* strings.Join(elems, sep)
RECURSIVE Join(_, _)
Join(elems, sep) ==
    IF elems = << >> THEN ""
    ELSE IF Len(elems) = 1 THEN PairString(elems[1])
    ELSE PairString(elems[1]) \o sep \o Join(Tail(elems), sep)

\* finalOpts after the range over cfg.params in the given order and the sort
FinalOpts(params, order) == SortStrings([k \in DOMAIN order |-> << order[k], params[order[k]] >>])

BuildDSN(file, finalOpts) ==
    IF Len(finalOpts) > 0 THEN "file:" \o file \o "?" \o Join(finalOpts, "&")
    ELSE "file:" \o file

MinPoolSize == 2

MaxPoolSize == 8

\* a pool size with the ceiling of 8 and no floor
ParallelismNoFloor(procs) == Min(MaxPoolSize, procs)

\* min(8, max(2, runtime.GOMAXPROCS(0)))
Parallelism(procs) == Min(MaxPoolSize, Max(MinPoolSize, procs))

(***************************************************************************)
(* The inputs of the model.                                                *)
(***************************************************************************)
MaxOpts == 3

MaxPoolOpts == 1

NCallers == 2

\* app.db exists before the open call, new.db does not
Filenames == {"", "a?b.db", "a#b.db", "app.db", "new.db"}

ExistingFiles == {"app.db"}

\* the filenames of the open calls that take every option sequence
OpenFilenames == {"", "a?b.db", "a#b.db", "app.db"}

Options ==
    {NilOption}
    \cup {BoolOption("WithOptimize", b) : b \in BOOLEAN}
    \cup {IntOption("WithBusyTimeoutSeconds", GoInt(n)) : n \in {-1, 0, 30}}
    \cup {IntOption("WithCacheSizeMiB", GoInt(n)) : n \in {0, 64}}
    \cup {StringOption("WithJournalMode", s) : s \in {"wal", "DELETE", "bogus"}}
    \cup {StringOption("WithSynchronous", s) : s \in {"full", "bogus"}}
    \cup {BoolOption("WithForeignKeys", b) : b \in BOOLEAN}
    \cup {StringOption("WithTempStore", s) : s \in {"file", "MEMORY", "bogus"}}
    \cup {IntOption("WithMMapSize", GoInt(n)) : n \in {-1, 4096}}
    \cup {BoolOption("WithCaseSensitiveLike", TRUE)}
    \cup {BoolOption("WithRecursiveTriggers", FALSE)}
    \cup {StringOption("WithSecureDelete", s) : s \in {"fast", "bogus"}}

\* the options of the open calls whose handle the callers then use
PoolOptions ==
    {NilOption}
    \cup {BoolOption("WithOptimize", b) : b \in BOOLEAN}
    \cup {StringOption("WithTempStore", s) : s \in {"file", "MEMORY", "bogus"}}
    \cup {StringOption("WithJournalMode", s) : s \in {"DELETE"}}

\* math.MaxInt and math.MinInt of an int of n limbs, and 2^k
MaxInt(n) == [i \in 1..n |-> IF i = n THEN Limb \div 2 - 1 ELSE Limb - 1]

MinInt(n) == [i \in 1..n |-> IF i = n THEN Limb \div 2 ELSE 0]

Pow2(k, n) == [i \in 1..n |-> IF i = k \div 16 + 1 THEN 2 ^ (k % 16) ELSE 0]

\* w - 1
Pred(w) == Neg(AddCarry(Neg(w), 1))

\* the greatest sec for which sec * 1000 is an int64
MaxSeconds == DivMod(MaxInt(4), 1000).quot

\* the int arguments of a call on a 64-bit platform
Ints64 ==
    {GoInt(n) : n \in {-1, 0, 1, 30, 32}}
    \cup {Int64(MaxInt(2)), Pred(Pow2(53, 4)), Pow2(53, 4), Pow2(54, 4),
          MaxSeconds, AddCarry(MaxSeconds, 1), MaxInt(4), MinInt(4)}

\* the int arguments of a call on a 32-bit platform
Ints32 ==
    {GoInt32(n) : n \in {-1, 0, 1, 30, 32}}
    \cup {Pred(Pow2(21, 2)), Pow2(21, 2), Pow2(22, 2), MaxInt(2), MinInt(2)}

\* the numeric options of one platform
NumOptions(ints) ==
    {IntOption(name, n) : name \in {"WithBusyTimeoutSeconds", "WithCacheSizeMiB"}, n \in ints}

MaxNumOpts == 1

MaxProcs == 10

\* the readings of the clock, in nanoseconds
MaxNanos == 2

Nanos == 1..MaxNanos

\* the addresses at which the allocator places a cfg
Addrs == {"0xc000012000", "0xc000012030"}

\* the options and filenames of the calls that follow one another
RegOptions == {BoolOption("WithOptimize", FALSE), StringOption("WithTempStore", "bogus")}

MaxRegOpts == 1

RegFilenames == {"", "app.db"}

SeqsUpTo(S, n) == UNION {[1..k -> S] : k \in 0..n}

Users == 0..NCallers

Callers == 1..NCallers

Opener == 0

ConnIds == 1..(NCallers + 1)

VARIABLES
    filename,   \* openWithMode's filename
    mode,       \* openWithMode's mode
    opts,       \* openWithMode's opts
    gomaxprocs, \* runtime.GOMAXPROCS(0)
    now,        \* time.Now().UnixNano() as the call reads it
    cfgPtr,     \* the address of the cfg of the call, as %p prints it
    files,      \* the database files that exist
    pc,         \* the open call's position in openWithMode
    idx,        \* the index into opts of the next option
    cfg,        \* cfg, the openConfig of the call
    drivers,    \* the registry of database/sql: each name with the cfg of its hook
    finalOpts,  \* the sorted key=value pairs of the DSN
    dsn,        \* the DSN handed to sql.Open
    db,         \* the *sql.DB
    conns,      \* the physical connections of db
    users,      \* the pool users: the open call's ping (0) and the callers
    result,     \* what openWithMode returned
    faults      \* the failures the engine has reported, other than a missing file

vars == << filename, mode, opts, gomaxprocs, now, cfgPtr, files, pc, idx, cfg, drivers,
           finalOpts, dsn, db, conns, users, result, faults >>

NoDB == [state |-> "none", driver |-> "", maxOpen |-> 0, maxIdle |-> 0,
         maxLifetime |-> 0, maxIdleTime |-> 0]

NoConn == [state |-> "absent", hookPc |-> "", stmts |-> << >>, applied |-> {},
           temp_store |-> "0", err |-> NoErr]

NoUser == [pc |-> "idle", conn |-> 0, observed |-> "", err |-> NoErr]

NoResult == [db |-> FALSE, err |-> NoErr]

InitState ==
    /\ files = ExistingFiles
    /\ pc = "start"
    /\ idx = 1
    /\ cfg = NewConfig
    /\ drivers = {}
    /\ finalOpts = << >>
    /\ dsn = ""
    /\ db = NoDB
    /\ conns = [c \in ConnIds |-> NoConn]
    /\ users = [u \in Users |-> NoUser]
    /\ result = NoResult
    /\ faults = {}

(***************************************************************************)
(* openWithMode, step by step.                                             *)
(***************************************************************************)
Return(handle, err) ==
    /\ result' = [db |-> handle, err |-> err]
    /\ pc' = "done"

CheckFilename ==
    /\ pc = "start"
    /\ IF filename = ""
       THEN Return(FALSE, ErrEmptyFilename)
       ELSE IF ContainsAny(filename, {"?", "#"})
       THEN Return(FALSE, Err("ErrOpenFailed",
                              "filename " \o Quote(filename) \o " contains reserved characters"))
       ELSE pc' = "options" /\ result' = result
    /\ UNCHANGED << filename, mode, opts, gomaxprocs, now, cfgPtr, files, idx, cfg, drivers,
                    finalOpts, dsn, db, conns, users, faults >>

\* one turn of the loop over opts
ApplyOption ==
    /\ pc = "options"
    /\ idx <= Len(opts)
    /\ IF opts[idx] = NilOption
       THEN /\ idx' = idx + 1
            /\ UNCHANGED << cfg, pc, result >>
       ELSE LET r == Apply(opts[idx], cfg) IN
            IF r.err # NoErr
            THEN /\ Return(FALSE, r.err)
                 /\ cfg' = r.cfg
                 /\ idx' = idx
            ELSE /\ cfg' = r.cfg
                 /\ idx' = idx + 1
                 /\ UNCHANGED << pc, result >>
    /\ UNCHANGED << filename, mode, opts, gomaxprocs, now, cfgPtr, files, drivers,
                    finalOpts, dsn, db, conns, users, faults >>

ApplyDefaults ==
    /\ pc = "options"
    /\ idx > Len(opts)
    /\ cfg' = MergeDefaults(cfg)
    /\ pc' = "mode"
    /\ UNCHANGED << filename, mode, opts, gomaxprocs, now, cfgPtr, files, idx, drivers,
                    finalOpts, dsn, db, conns, users, result, faults >>

ApplyMode ==
    /\ pc = "mode"
    /\ IF mode \in Modes
       THEN /\ cfg' = SetMode(cfg, mode)
            /\ pc' = "register"
            /\ result' = result
       ELSE /\ Return(FALSE, Err("ErrInvalidMode", "invalid mode " \o mode))
            /\ cfg' = cfg
    /\ UNCHANGED << filename, mode, opts, gomaxprocs, now, cfgPtr, files, idx, drivers,
                    finalOpts, dsn, db, conns, users, faults >>

\* sql.Register of a driver whose ConnectHook closes over cfg
RegisterDriver ==
    /\ pc = "register"
    /\ IF \E d \in drivers : d.name = DriverName(now, cfgPtr)
       THEN /\ pc' = "panic"
            /\ UNCHANGED drivers
       ELSE /\ drivers' = drivers \cup {[name |-> DriverName(now, cfgPtr),
                                         ptr |-> cfgPtr, cfg |-> cfg]}
            /\ pc' = "open"
    /\ UNCHANGED << filename, mode, opts, gomaxprocs, now, cfgPtr, files, idx, cfg,
                    finalOpts, dsn, db, conns, users, result, faults >>

\* the DSN, sql.Open and the sizing of the pool
OpenDatabase ==
    /\ pc = "open"
    /\ \E order \in MapOrders(cfg.params) :
           /\ finalOpts' = FinalOpts(cfg.params, order)
           /\ dsn' = BuildDSN(filename, FinalOpts(cfg.params, order))
    /\ db' = [state |-> "open", driver |-> DriverName(now, cfgPtr),
              maxOpen |-> Parallelism(gomaxprocs), maxIdle |-> Parallelism(gomaxprocs),
              maxLifetime |-> 0, maxIdleTime |-> 0]
    /\ users' = [users EXCEPT ![Opener].pc = "want"]
    /\ pc' = "ping"
    /\ UNCHANGED << filename, mode, opts, gomaxprocs, now, cfgPtr, files, idx, cfg, drivers,
                    conns, result, faults >>

(***************************************************************************)
(* database/sql's pool and the engine, as one user u sees them.            *)
(***************************************************************************)
IdleConns == {c \in ConnIds : conns[c].state = "idle"}

OpenConns == {c \in ConnIds : conns[c].state \in {"connecting", "hook", "inuse", "idle"}}

\* the value of a DSN parameter, as the engine reads it
DsnParam(k) ==
    LET at == {j \in DOMAIN finalOpts : finalOpts[j][1] = k} IN
    IF at = {} THEN "" ELSE finalOpts[CHOOSE j \in at : TRUE][2]

TempStoreCode == ("DEFAULT" :> "0") @@ ("FILE" :> "1") @@ ("MEMORY" :> "2")

\* db.conn: a free connection, or a new one while fewer than maxOpen are open
Acquire(u) ==
    /\ users[u].pc = "want"
    /\ db.state = "open"
    /\ IF IdleConns # {}
       THEN \E c \in IdleConns :
                /\ conns' = [conns EXCEPT ![c].state = "inuse"]
                /\ users' = [users EXCEPT ![u].pc = "exec", ![u].conn = c]
       ELSE /\ Cardinality(OpenConns) < db.maxOpen
            /\ LET c == CHOOSE x \in ConnIds :
                            conns[x].state = "absent"
                            /\ \A y \in ConnIds : conns[y].state = "absent" => x <= y
               IN  /\ conns' = [conns EXCEPT ![c].state = "connecting"]
                   /\ users' = [users EXCEPT ![u].pc = "connect", ![u].conn = c]
    /\ UNCHANGED << filename, mode, opts, gomaxprocs, now, cfgPtr, files, pc, idx, cfg, drivers,
                    finalOpts, dsn, db, result, faults >>

\* the driver's Open: the engine opens the file by the DSN's mode
Connect(u) ==
    /\ users[u].pc = "connect"
    /\ \E fault \in BOOLEAN :
           LET c == users[u].conn
               canOpen == filename \in files \/ DsnParam("mode") = modeReadWriteCreate
           IN  IF canOpen /\ ~fault
               THEN /\ files' = files \cup {filename}
                    /\ faults' = faults
                    /\ conns' = [conns EXCEPT ![c].state = "hook", ![c].hookPc = "optimize"]
                    /\ users' = [users EXCEPT ![u].pc = "hook"]
               ELSE /\ files' = files
                    /\ faults' = IF canOpen THEN faults \cup {"open"} ELSE faults
                    /\ conns' = [conns EXCEPT ![c].state = "closed",
                                              ![c].err = Err("engine", "unable to open database file")]
                    /\ users' = [users EXCEPT ![u].pc = "failed",
                                              ![u].err = Err("engine", "unable to open database file")]
    /\ UNCHANGED << filename, mode, opts, gomaxprocs, now, cfgPtr, pc, idx, cfg, drivers,
                    finalOpts, dsn, db, result >>

\* a hook whose error is dropped: the connection is closed and its user goes on
HookFailsUnreported(u, c, stmt) ==
    /\ conns' = [conns EXCEPT ![c].state = "closed", ![c].hookPc = "failed",
                              ![c].stmts = Append(@, stmt)]
    /\ users' = [users EXCEPT ![u].pc = "failed"]
    /\ faults' = faults \cup {"exec"}

\* the hook's error return: the driver closes the connection and fails the Open
HookFails(u, c, stmt) ==
    LET e == Wrap("ErrPragmaExec", "failed to execute " \o Quote(stmt), Err("engine", "exec"))
    IN  /\ conns' = [conns EXCEPT ![c].state = "closed", ![c].hookPc = "failed",
                                  ![c].stmts = Append(@, stmt), ![c].err = e]
        /\ users' = [users EXCEPT ![u].pc = "failed", ![u].err = e]
        /\ faults' = faults \cup {"exec"}

\* ConnectHook: PRAGMA optimize unless disabled
\* a hook that issues PRAGMA optimize whatever disableOptimize says
HookOptimizeAlways(u) ==
    /\ users[u].pc = "hook"
    /\ conns[users[u].conn].hookPc = "optimize"
    /\ LET c == users[u].conn IN
       \E ok \in BOOLEAN :
           IF ok
           THEN /\ conns' = [conns EXCEPT ![c].hookPc = "pragmas",
                                          ![c].stmts = Append(@, "PRAGMA optimize")]
                /\ UNCHANGED << users, faults >>
           ELSE HookFails(u, c, "PRAGMA optimize")
    /\ UNCHANGED << filename, mode, opts, gomaxprocs, now, cfgPtr, files, pc, idx, cfg, drivers,
                    finalOpts, dsn, db, result >>

HookOptimize(u) ==
    /\ users[u].pc = "hook"
    /\ conns[users[u].conn].hookPc = "optimize"
    /\ LET c == users[u].conn IN
       IF ~cfg.disableOptimize
       THEN \E ok \in BOOLEAN :
                IF ok
                THEN /\ conns' = [conns EXCEPT ![c].hookPc = "pragmas",
                                               ![c].stmts = Append(@, "PRAGMA optimize")]
                     /\ UNCHANGED << users, faults >>
                ELSE HookFails(u, c, "PRAGMA optimize")
       ELSE /\ conns' = [conns EXCEPT ![c].hookPc = "pragmas"]
            /\ UNCHANGED << users, faults >>
    /\ UNCHANGED << filename, mode, opts, gomaxprocs, now, cfgPtr, files, pc, idx, cfg, drivers,
                    finalOpts, dsn, db, result >>

\* ConnectHook: one turn of the range over cfg.pragmas
HookPragma(u) ==
    /\ users[u].pc = "hook"
    /\ conns[users[u].conn].hookPc = "pragmas"
    /\ LET c == users[u].conn
           pending == DOMAIN cfg.pragmas \ conns[c].applied
       IN  /\ pending # {}
           /\ \E name \in pending, ok \in BOOLEAN :
                  LET stmt == "PRAGMA " \o name \o "=" \o cfg.pragmas[name] IN
                  IF ok
                  THEN /\ conns' = [conns EXCEPT
                                      ![c].stmts = Append(@, stmt),
                                      ![c].applied = @ \cup {name},
                                      ![c].temp_store = IF name = "temp_store"
                                                        THEN TempStoreCode[cfg.pragmas[name]]
                                                        ELSE @]
                       /\ UNCHANGED << users, faults >>
                  ELSE HookFails(u, c, stmt)
    /\ UNCHANGED << filename, mode, opts, gomaxprocs, now, cfgPtr, files, pc, idx, cfg, drivers,
                    finalOpts, dsn, db, result >>

\* ConnectHook returns nil: the connection goes to the user that opened it
\* a connection handed to its user while pragmas of the hook are still pending
HookReturnsEarly(u) ==
    /\ users[u].pc = "hook"
    /\ conns[users[u].conn].hookPc = "pragmas"
    /\ conns' = [conns EXCEPT ![users[u].conn].state = "inuse",
                              ![users[u].conn].hookPc = "done"]
    /\ users' = [users EXCEPT ![u].pc = "exec"]
    /\ UNCHANGED << filename, mode, opts, gomaxprocs, now, cfgPtr, files, pc, idx, cfg, drivers,
                    finalOpts, dsn, db, result, faults >>

HookReturns(u) ==
    /\ users[u].pc = "hook"
    /\ conns[users[u].conn].hookPc = "pragmas"
    /\ DOMAIN cfg.pragmas \ conns[users[u].conn].applied = {}
    /\ conns' = [conns EXCEPT ![users[u].conn].state = "inuse",
                              ![users[u].conn].hookPc = "done"]
    /\ users' = [users EXCEPT ![u].pc = "exec"]
    /\ UNCHANGED << filename, mode, opts, gomaxprocs, now, cfgPtr, files, pc, idx, cfg, drivers,
                    finalOpts, dsn, db, result, faults >>

\* putConn: the connection goes back to the free list, or is closed beyond maxIdle
Release(c) ==
    [conns EXCEPT ![c].state = IF Cardinality(IdleConns) < db.maxIdle THEN "idle" ELSE "closed"]

\* db.PingContext on the connection, under the 10 second deadline
Ping ==
    /\ users[Opener].pc = "exec"
    /\ \E outcome \in {"ok", "fail", "timeout"} :
           /\ users' = [users EXCEPT
                          ![Opener].pc = IF outcome = "ok" THEN "done" ELSE "failed",
                          ![Opener].err = CASE outcome = "ok" -> NoErr
                                            [] outcome = "fail" -> Err("engine", "ping")
                                            [] outcome = "timeout" -> Err("context", "context deadline exceeded")]
           /\ faults' = IF outcome = "ok" THEN faults ELSE faults \cup {outcome}
    /\ conns' = Release(users[Opener].conn)
    /\ UNCHANGED << filename, mode, opts, gomaxprocs, now, cfgPtr, files, pc, idx, cfg, drivers,
                    finalOpts, dsn, db, result >>

\* the end of openWithMode: the handle, or db.Close() and ErrPingFailed
\* a failed ping reported without closing the handle
FinishWithoutClose ==
    /\ pc = "ping"
    /\ users[Opener].pc \in {"done", "failed"}
    /\ IF users[Opener].pc = "done"
       THEN Return(TRUE, NoErr)
       ELSE Return(FALSE, Wrap("ErrPingFailed",
                               "failed to ping database " \o Quote(filename),
                               users[Opener].err))
    /\ UNCHANGED << filename, mode, opts, gomaxprocs, now, cfgPtr, files, idx, cfg, drivers,
                    finalOpts, dsn, users, faults, db, conns >>

Finish ==
    /\ pc = "ping"
    /\ users[Opener].pc \in {"done", "failed"}
    /\ IF users[Opener].pc = "done"
       THEN /\ Return(TRUE, NoErr)
            /\ UNCHANGED << db, conns >>
       ELSE /\ db' = [db EXCEPT !.state = "closed"]
            /\ conns' = [c \in ConnIds |->
                            IF conns[c].state = "absent" THEN conns[c]
                            ELSE [conns[c] EXCEPT !.state = "closed"]]
            /\ Return(FALSE, Wrap("ErrPingFailed",
                                  "failed to ping database " \o Quote(filename),
                                  users[Opener].err))
    /\ UNCHANGED << filename, mode, opts, gomaxprocs, now, cfgPtr, files, idx, cfg, drivers,
                    finalOpts, dsn, users, faults >>

(***************************************************************************)
(* The callers of the returned handle.                                     *)
(***************************************************************************)
\* a caller issues a statement through the handle
CallerStart(u) ==
    /\ pc = "done"
    /\ result.db
    /\ users[u].pc = "idle"
    /\ users' = [users EXCEPT ![u].pc = "want"]
    /\ UNCHANGED << filename, mode, opts, gomaxprocs, now, cfgPtr, files, pc, idx, cfg, drivers,
                    finalOpts, dsn, db, conns, result, faults >>

\* the caller's statement runs on its connection: db.QueryRow("PRAGMA temp_store")
CallerQuery(u) ==
    /\ users[u].pc = "exec"
    /\ users' = [users EXCEPT ![u].pc = "done",
                              ![u].observed = conns[users[u].conn].temp_store]
    /\ conns' = Release(users[u].conn)
    /\ UNCHANGED << filename, mode, opts, gomaxprocs, now, cfgPtr, files, pc, idx, cfg, drivers,
                    finalOpts, dsn, db, result, faults >>

PoolStep(u) ==
    \/ Acquire(u)
    \/ Connect(u)
    \/ HookOptimize(u)
    \/ HookPragma(u)
    \/ HookReturns(u)

NextOpen ==
    \/ CheckFilename
    \/ ApplyOption
    \/ ApplyDefaults
    \/ ApplyMode
    \/ RegisterDriver
    \/ OpenDatabase
    \/ PoolStep(Opener)
    \/ Ping
    \/ Finish

\* db.Close() by the caller that holds the handle
CloseHandle ==
    /\ pc = "done"
    /\ result.db
    /\ db.state = "open"
    /\ \A c \in ConnIds : conns[c].state # "inuse"
    /\ db' = [db EXCEPT !.state = "closed"]
    /\ conns' = [c \in ConnIds |->
                    IF conns[c].state = "absent" THEN conns[c]
                    ELSE [conns[c] EXCEPT !.state = "closed"]]
    /\ UNCHANGED << filename, mode, opts, gomaxprocs, now, cfgPtr, files, pc, idx, cfg,
                    drivers, finalOpts, dsn, users, result, faults >>

\* the addresses the registry keeps reachable: the cfg of every registered hook
Retained == {d.ptr : d \in drivers}

\* the next open call of the process, once the one before has returned and its
\* handle, if any, is closed: a new cfg at an address that holds no reachable
\* object, and a new reading of the clock
OpenAgain ==
    /\ pc = "done"
    /\ db.state # "open"
    /\ filename' \in RegFilenames
    /\ mode' \in Modes
    /\ opts' \in SeqsUpTo(RegOptions, MaxRegOpts)
    /\ now' \in Nanos
    /\ cfgPtr' \in Addrs \ Retained
    /\ pc' = "start"
    /\ idx' = 1
    /\ cfg' = NewConfig
    /\ finalOpts' = << >>
    /\ dsn' = ""
    /\ db' = NoDB
    /\ conns' = [c \in ConnIds |-> NoConn]
    /\ users' = [u \in Users |-> NoUser]
    /\ result' = NoResult
    /\ faults' = {}
    /\ UNCHANGED << gomaxprocs, files, drivers >>

NextReg == NextOpen \/ CloseHandle \/ OpenAgain

NextCallers ==
    \E u \in Callers :
        \/ CallerStart(u)
        \/ PoolStep(u)
        \/ CallerQuery(u)

Next == NextOpen \/ NextCallers

\* every open call: any filename, mode and up to MaxOpts options
InitOpen ==
    /\ filename \in OpenFilenames
    /\ mode \in Modes
    /\ opts \in SeqsUpTo(Options, MaxOpts)
    /\ gomaxprocs = 4
    /\ now = 1
    /\ cfgPtr = "0xc000012000"
    /\ InitState

\* the open calls with few options, and the callers of the handle
Init ==
    /\ filename \in Filenames
    /\ mode \in Modes
    /\ opts \in SeqsUpTo(PoolOptions, MaxPoolOpts)
    /\ gomaxprocs \in {1, 3, 16}
    /\ now = 1
    /\ cfgPtr = "0xc000012000"
    /\ InitState

SpecOpen == InitOpen /\ [][NextOpen]_vars

Spec == Init /\ [][Next]_vars

\* the open calls with numeric options of every size, on either platform, and
\* with every parallelism hint
InitNum ==
    /\ filename = "app.db"
    /\ mode \in Modes
    /\ \E ints \in {Ints32, Ints64} : opts \in SeqsUpTo(NumOptions(ints), MaxNumOpts)
    /\ gomaxprocs \in 1..MaxProcs
    /\ now = 1
    /\ cfgPtr = "0xc000012000"
    /\ InitState

SpecNum == InitNum /\ [][NextOpen]_vars

\* the open calls of one process, one after the other
InitReg ==
    /\ filename \in RegFilenames
    /\ mode \in Modes
    /\ opts \in SeqsUpTo(RegOptions, MaxRegOpts)
    /\ gomaxprocs = 4
    /\ now \in Nanos
    /\ cfgPtr \in Addrs
    /\ InitState

SpecReg == InitReg /\ [][NextReg]_vars

(***************************************************************************)
(* What the claims speak of: the documented domain of each mutator, the    *)
(* key it sets, the value it stands for, and the documented defaults.      *)
(***************************************************************************)
KeyOf ==
    ("WithBusyTimeoutSeconds" :> "_busy_timeout") @@
    ("WithCacheSizeMiB" :> "_cache_size") @@
    ("WithJournalMode" :> "_journal_mode") @@
    ("WithSynchronous" :> "_synchronous") @@
    ("WithForeignKeys" :> "_foreign_keys") @@
    ("WithTempStore" :> "temp_store") @@
    ("WithMMapSize" :> "_mmap_size") @@
    ("WithCaseSensitiveLike" :> "_case_sensitive_like") @@
    ("WithRecursiveTriggers" :> "_recursive_triggers") @@
    ("WithSecureDelete" :> "_secure_delete")

TargetsKey(o) == o.name \in DOMAIN KeyOf

\* the value of a small non-negative integer argument
Small(w) == w[1] + w[2] * Limb

InDomain(o) ==
    CASE o.name = "WithBusyTimeoutSeconds" -> ~IsNeg(o.n)
      [] o.name = "WithCacheSizeMiB" -> ~IsNeg(o.n) /\ ~IsZero(o.n)
      [] o.name = "WithMMapSize" -> ~IsNeg(o.n)
      [] o.name = "WithJournalMode" ->
             ToUpper(o.s) \in {"WAL", "DELETE", "TRUNCATE", "PERSIST", "MEMORY", "OFF"}
      [] o.name = "WithSynchronous" -> ToUpper(o.s) \in {"OFF", "NORMAL", "FULL", "EXTRA"}
      [] o.name = "WithTempStore" -> ToUpper(o.s) \in {"DEFAULT", "FILE", "MEMORY"}
      [] o.name = "WithSecureDelete" -> ToUpper(o.s) \in {"FAST", "ON", "OFF"}
      [] OTHER -> TRUE

ValueOf(o) ==
    CASE o.name = "WithBusyTimeoutSeconds" -> ToString(Small(o.n) * 1000)
      [] o.name = "WithCacheSizeMiB" -> "-" \o ToString(Small(o.n) * 1024)
      [] o.name = "WithMMapSize" -> ToString(Small(o.n))
      [] o.name \in {"WithForeignKeys", "WithCaseSensitiveLike", "WithRecursiveTriggers"} ->
             IF o.b THEN "true" ELSE "false"
      [] OTHER -> ToUpper(o.s)

BuiltInDefaults ==
    ("cache" :> "private") @@
    ("_foreign_keys" :> "true") @@
    ("_busy_timeout" :> "10000") @@
    ("_journal_mode" :> "WAL") @@
    ("_synchronous" :> "NORMAL") @@
    ("_cache_size" :> "-32768") @@
    ("temp_store" :> "MEMORY")

HasReservedChar(f) == \E k \in DOMAIN Chars[f] : Chars[f][k] \in {"?", "#"}

ValidFilename == filename # "" /\ ~HasReservedChar(filename)

AllInDomain == \A k \in DOMAIN opts : InDomain(opts[k])

\* the pairs of positions whose mutators target the same key, both in-domain
DuplicatePairs ==
    {p \in (DOMAIN opts) \X (DOMAIN opts) :
        /\ p[1] < p[2]
        /\ TargetsKey(opts[p[1]]) /\ TargetsKey(opts[p[2]])
        /\ KeyOf[opts[p[1]].name] = KeyOf[opts[p[2]].name]
        /\ InDomain(opts[p[1]]) /\ InDomain(opts[p[2]])}

\* the key of the first mutator of the sequence that repeats an earlier one
FirstRepeatedKey ==
    LET j == CHOOSE x \in {p[2] : p \in DuplicatePairs} :
                 \A y \in {p[2] : p \in DuplicatePairs} : x <= y
    IN  KeyOf[opts[j].name]

CallerSet(k) == \E j \in DOMAIN opts : TargetsKey(opts[j]) /\ KeyOf[opts[j].name] = k

CallerValue(k) ==
    ValueOf(opts[CHOOSE j \in DOMAIN opts : TargetsKey(opts[j]) /\ KeyOf[opts[j].name] = k])

\* the configuration was built: every mutator succeeded, defaults and mode are in
ConfigBuilt == pc \in {"register", "open", "ping"} \/ (pc = "done" /\ db # NoDB)

Present(k) == IF k = "temp_store" THEN Has(cfg.pragmas, k) ELSE Has(cfg.params, k)

FinalValue(k) == IF k = "temp_store" THEN cfg.pragmas[k] ELSE cfg.params[k]

\* no driver registered, nothing opened, no connection, no probe, no file made
NoIO ==
    /\ drivers = {}
    /\ db = NoDB
    /\ dsn = ""
    /\ finalOpts = << >>
    /\ conns = [c \in ConnIds |-> NoConn]
    /\ users = [u \in Users |-> NoUser]
    /\ files = ExistingFiles

C2_InvalidOptionFailsBeforeIO ==
    (ValidFilename /\ ~AllInDomain) =>
        /\ NoIO
        /\ ~result.db
        /\ pc \in {"start", "options", "done"}
        /\ pc = "done" => result.err.kind = "ErrInvalidConfigOption"

\* C2 witness: the out-of-domain mutator comes last, after two that were applied
C2_Witness ==
    /\ pc = "done"
    /\ ValidFilename
    /\ Len(opts) = 3
    /\ TargetsKey(opts[1]) /\ InDomain(opts[1])
    /\ TargetsKey(opts[2]) /\ InDomain(opts[2])
    /\ ~InDomain(opts[3])
    /\ idx = 3
    /\ DOMAIN cfg.params \cup DOMAIN cfg.pragmas # {}
    /\ result.err.kind = "ErrInvalidConfigOption"

(***************************************************************************)
(* C3.  Once the configuration of a ReadOnly open is built, neither the    *)
(* parameter map nor the DSN built from it holds _journal_mode, whether    *)
(* the default or a WithJournalMode mutator would have set it.             *)
(***************************************************************************)
C3_ReadOnlyNoJournalMode ==
    (ConfigBuilt /\ mode = modeReadOnly) =>
        /\ ~Has(cfg.params, "_journal_mode")
        /\ \A j \in DOMAIN finalOpts : finalOpts[j][1] # "_journal_mode"

\* C3 witness: a ReadOnly open with a valid WithJournalMode as its second option
C3_Witness ==
    /\ pc = "ping"
    /\ mode = modeReadOnly
    /\ Len(opts) = 3
    /\ opts[2] = StringOption("WithJournalMode", "DELETE")
    /\ Len(finalOpts) > 0
    /\ cfg.params["mode"] = "ro"

(***************************************************************************)
(* C4.  As claimed: in every mode, each built-in default key is in the     *)
(* final configuration, with the default when the caller set no mutator    *)
(* for it and with the caller's value when the caller did.  This fails for *)
(* _journal_mode in a ReadOnly open, where the key is removed.             *)
(***************************************************************************)
C4_DefaultsInEveryMode ==
    ConfigBuilt =>
        \A k \in DOMAIN BuiltInDefaults :
            /\ Present(k)
            /\ FinalValue(k) = IF CallerSet(k) THEN CallerValue(k) ELSE BuiltInDefaults[k]

\* C4, amended: the same for every key and mode but _journal_mode in a ReadOnly
\* open, which is absent from the final configuration; right after the merge of
\* the defaults, before the mode is applied, it holds of every key.
C4_DefaultsUnlessExplicit ==
    (ConfigBuilt \/ pc = "mode") =>
        \A k \in DOMAIN BuiltInDefaults :
            IF k = "_journal_mode" /\ mode = modeReadOnly /\ pc # "mode"
            THEN ~Present(k)
            ELSE /\ Present(k)
                 /\ FinalValue(k) = IF CallerSet(k) THEN CallerValue(k) ELSE BuiltInDefaults[k]

\* C4 witness: one default key overridden by the caller, the others defaulted
C4_Witness ==
    /\ pc = "ping"
    /\ mode = modeReadWrite
    /\ CallerSet("_busy_timeout") /\ CallerSet("_journal_mode") /\ CallerSet("temp_store")
    /\ cfg.params["_busy_timeout"] = "30000"
    /\ cfg.params["_journal_mode"] = "DELETE"
    /\ cfg.pragmas["temp_store"] = "FILE"
    /\ cfg.params["_cache_size"] = "-32768"
    /\ cfg.params["_synchronous"] = "NORMAL"

(***************************************************************************)
(* C7.  An open call with an empty filename fails with ErrEmptyFilename    *)
(* and one with a filename holding "?" or "#" fails with an error, before  *)
(* any mutator is applied and before any registration, open or probe,      *)
(* whatever the options.                                                   *)
(***************************************************************************)
C7_FilenameCheckedFirst ==
    ~ValidFilename =>
        /\ idx = 1
        /\ cfg = NewConfig
        /\ NoIO
        /\ ~result.db
        /\ pc \in {"start", "done"}
        /\ pc = "done" =>
               IF filename = "" THEN result.err = ErrEmptyFilename
               ELSE result.err.kind = "ErrOpenFailed"

\* C7 witness: a filename with "#", with a repeated and an out-of-domain mutator
C7_Witness ==
    /\ pc = "done"
    /\ filename = "a#b.db"
    /\ DuplicatePairs # {}
    /\ ~AllInDomain
    /\ result.err.kind = "ErrOpenFailed"

(***************************************************************************)
(* C8.  The DSN is "file:<filename>?" followed by the key=value pairs      *)
(* joined by "&" in the byte order of their keys, whatever order the range *)
(* over the map took: the sort of the whole "key=value" strings orders     *)
(* them by key.  Stated of the moment sql.Open has been handed the DSN.    *)
(***************************************************************************)
KeyLess(a, b) == BytesLess(Chars[a], Chars[b])

RECURSIVE PairsByKey(_, _)
PairsByKey(params, keys) ==
    IF keys = {} THEN << >>
    ELSE LET k == CHOOSE x \in keys : \A y \in keys \ {x} : KeyLess(x, y)
         IN  << << k, params[k] >> >> \o PairsByKey(params, keys \ {k})

RECURSIVE JoinPairs(_)
JoinPairs(pairs) ==
    IF pairs = << >> THEN ""
    ELSE pairs[1][1] \o "=" \o pairs[1][2]
         \o (IF Len(pairs) > 1 THEN "&" ELSE "") \o JoinPairs(Tail(pairs))

C8_DsnSortedByKey ==
    (pc = "ping" /\ users[Opener].pc = "want") =>
        /\ finalOpts = PairsByKey(cfg.params, DOMAIN cfg.params)
        /\ dsn = "file:" \o filename \o "?" \o JoinPairs(PairsByKey(cfg.params, DOMAIN cfg.params))

\* C8 witness: a DSN of ten pairs, three of them keys only the caller can set
C8_Witness ==
    /\ pc = "ping"
    /\ users[Opener].pc = "want"
    /\ Len(finalOpts) = 10
    /\ mode = modeReadWriteCreate
    /\ dsn = "file:app.db?_busy_timeout=10000&_cache_size=-32768&_case_sensitive_like=true"
             \o "&_foreign_keys=true&_journal_mode=WAL&_mmap_size=4096"
             \o "&_recursive_triggers=false&_synchronous=NORMAL&cache=private&mode=rwc"

(***************************************************************************)
(* What the options of the call stand for at the hook.                     *)
(***************************************************************************)
ExpectedTempStore ==
    IF \E j \in DOMAIN opts : opts[j].name = "WithTempStore"
    THEN ToUpper(opts[CHOOSE j \in DOMAIN opts : opts[j].name = "WithTempStore"].s)
    ELSE "MEMORY"

\* optimize runs unless the last WithOptimize of the sequence disabled it
ExpectedOptimize ==
    LET at == {j \in DOMAIN opts : opts[j].name = "WithOptimize"} IN
    at = {} \/ opts[CHOOSE j \in at : \A k \in at : k <= j].b

ExpectedHook ==
    (IF ExpectedOptimize THEN << "PRAGMA optimize" >> ELSE << >>)
    \o << "PRAGMA temp_store=" \o ExpectedTempStore >>

\* what PRAGMA temp_store reports for a setting
ReportedTempStore(v) == CASE v = "DEFAULT" -> "0" [] v = "FILE" -> "1" [] v = "MEMORY" -> "2"

IsPrefix(a, b) == Len(a) <= Len(b) /\ \A k \in DOMAIN a : a[k] = b[k]

FileExisted == filename \in ExistingFiles

(***************************************************************************)
(* C5.  On a file that does not exist, OpenReadWrite and OpenReadOnly fail *)
(* on the ping, return no handle and create no file, and                   *)
(* OpenReadWriteCreate creates the file and returns a handle; on a file    *)
(* that exists all three succeed.  The successes are those of an engine    *)
(* that reports no failure of its own on the open of the file, on a        *)
(* statement of the hook or on the ping.                                   *)
(***************************************************************************)
C5_SuccessByModeAndFile ==
    (pc = "done" /\ db # NoDB) =>
        /\ (~FileExisted /\ mode # modeReadWriteCreate) =>
               /\ ~result.db
               /\ result.err.kind = "ErrPingFailed"
               /\ filename \notin files
        /\ faults = {} => (result.db <=> (FileExisted \/ mode = modeReadWriteCreate))
        /\ result.db => filename \in files

\* C5 witness: OpenReadWriteCreate has created new.db and returned the handle
C5_Witness ==
    /\ pc = "done"
    /\ filename = "new.db"
    /\ mode = modeReadWriteCreate
    /\ result.db
    /\ "new.db" \in files

(***************************************************************************)
(* C6.  Whatever the interleaving of the callers, a statement of a caller  *)
(* runs only on a connection whose hook has run to its end, and every      *)
(* caller observes the temp_store fixed by the options of the open call,   *)
(* on the connection of the ping and on those opened after the return.     *)
(***************************************************************************)
C6_HookBeforeUseSameSetting ==
    /\ \A c \in ConnIds :
           conns[c].state \in {"idle", "inuse"} =>
               /\ conns[c].hookPc = "done"
               /\ conns[c].stmts = ExpectedHook
               /\ conns[c].temp_store = ReportedTempStore(ExpectedTempStore)
    /\ \A u \in Users :
           users[u].pc = "exec" => conns[users[u].conn].state = "inuse"
    /\ \A u \in Callers :
           users[u].pc = "done" => users[u].observed = ReportedTempStore(ExpectedTempStore)

\* C6 witness: two callers, on two connections, both observe WithTempStore("file")
C6_Witness ==
    /\ users[1].pc = "done" /\ users[2].pc = "done"
    /\ users[1].conn # users[2].conn
    /\ users[2].conn # users[Opener].conn
    /\ users[1].observed = "1" /\ users[2].observed = "1"

(***************************************************************************)
(* C9.  On every physical connection the hook issues PRAGMA optimize       *)
(* first, exactly when optimize is not disabled, then the statement of     *)
(* each pragma; when a statement fails it is the last the connection sees, *)
(* the hook returns ErrPragmaExec to the user that opened the connection,  *)
(* and no user runs a statement on that connection.                        *)
(***************************************************************************)
C9_HookOrderAndAbort ==
    \A c \in ConnIds :
        /\ IsPrefix(conns[c].stmts, ExpectedHook)
        /\ conns[c].hookPc = "done" => conns[c].stmts = ExpectedHook
        /\ conns[c].hookPc = "failed" =>
               /\ conns[c].state = "closed"
               /\ conns[c].stmts # << >>
               /\ conns[c].err.kind = "ErrPragmaExec"
               /\ conns[c].err.msg =
                      "failed to execute " \o Quote(conns[c].stmts[Len(conns[c].stmts)])
               /\ \A u \in Users :
                      users[u].conn = c => (users[u].pc = "failed" /\ users[u].err = conns[c].err)
               /\ \E u \in Users : users[u].conn = c

\* C9 witness: on a connection opened after the return, optimize ran and the
\* pragma failed
C9_Witness ==
    \E c \in ConnIds :
        /\ c # users[Opener].conn
        /\ conns[c].hookPc = "failed"
        /\ conns[c].stmts = << "PRAGMA optimize", "PRAGMA temp_store=MEMORY" >>
        /\ users[1].conn = c
        /\ users[1].err.kind = "ErrPragmaExec"

(***************************************************************************)
(* C10.  openWithMode returns a handle only after the ping on it          *)
(* succeeded; when the ping fails or runs into its deadline, the handle is *)
(* closed, with all its connections, and the call returns ErrPingFailed    *)
(* and no handle.                                                          *)
(***************************************************************************)
C10_HandleOnlyAfterPing ==
    /\ result.db =>
           /\ pc = "done"
           /\ users[Opener].pc = "done"
           /\ db.state = "open"
           /\ result.err = NoErr
    /\ (pc = "done" /\ ~result.db) =>
           /\ db.state \in {"none", "closed"}
           /\ \A c \in ConnIds : conns[c].state \in {"absent", "closed"}
           /\ result.err # NoErr
    /\ (pc = "done" /\ users[Opener].pc = "failed") =>
           /\ ~result.db
           /\ db.state = "closed"
           /\ result.err.kind = "ErrPingFailed"

\* C10 witness: the ping ran into its deadline on a connection whose hook had run
C10_Witness ==
    /\ pc = "done"
    /\ faults = {"timeout"}
    /\ conns[1].hookPc = "done"
    /\ conns[1].state = "closed"
    /\ db.state = "closed"
    /\ result = [db |-> FALSE,
                 err |-> [kind |-> "ErrPingFailed",
                          msg |-> "failed to ping database \"app.db\"",
                          cause |-> "context"]]

(***************************************************************************)
(* C11.  Whatever the parallelism hint n, the handle is given              *)
(* min(8, max(2, n)) as its maximum of open connections and as its maximum *)
(* of idle connections: n itself from 2 to 8, 2 below, 8 above; the        *)
(* lifetime and the idle time of a connection are 0, which is unbounded.   *)
(***************************************************************************)
C11_PoolSizedTwoToEight ==
    db # NoDB =>
        /\ db.maxOpen = db.maxIdle
        /\ db.maxOpen \in 2..8
        /\ gomaxprocs \in 2..8 => db.maxOpen = gomaxprocs
        /\ gomaxprocs < 2 => db.maxOpen = 2
        /\ gomaxprocs > 8 => db.maxOpen = 8
        /\ db.maxLifetime = 0
        /\ db.maxIdleTime = 0

\* C11 witness: a hint of 9 gives a pool of 8, and the handle was returned
C11_Witness ==
    /\ pc = "done"
    /\ result.db
    /\ gomaxprocs = 9
    /\ db.maxOpen = 8
    /\ db.maxIdle = 8

(***************************************************************************)
(* Exact decimal arithmetic, on digits, for the values the claims expect.  *)
(***************************************************************************)
\* the digits, least significant first, times a small k
RECURSIVE MulDigits(_, _, _)
MulDigits(ds, k, carry) ==
    IF ds = << >>
    THEN IF carry = 0 THEN << >> ELSE << carry % 10 >> \o MulDigits(ds, k, carry \div 10)
    ELSE LET t == Head(ds) * k + carry
         IN  << t % 10 >> \o MulDigits(Tail(ds), k, t \div 10)

\* the decimal of w * k, for w >= 0, as the integers have it
ExactTimes(w, k) ==
    IF IsZero(w) THEN "0"
    ELSE DigitString(Reverse(MulDigits(Reverse(DecimalDigits(w)), k, 0)))

\* a <= b, for a and b >= 0 of one width
WordLeq(a, b) ==
    a = b \/ \E i \in DOMAIN a : a[i] < b[i] /\ \A j \in DOMAIN a : j > i => a[j] = b[j]

\* the call has one option, of this constructor, and the option pass is over
OnlyOptionApplied(name) ==
    /\ Len(opts) = 1
    /\ opts[1].name = name
    /\ idx > 1 \/ pc = "done"

(***************************************************************************)
(* C12.  As claimed: WithBusyTimeoutSeconds(sec) sets _busy_timeout to the *)
(* decimal of exactly sec * 1000 for every sec >= 0 of the int type of the *)
(* platform, and fails, setting nothing, for sec < 0.  On a 64-bit         *)
(* platform the product wraps for sec above MaxSeconds.                    *)
(***************************************************************************)
C12_BusyTimeoutExact ==
    OnlyOptionApplied("WithBusyTimeoutSeconds") =>
        IF IsNeg(opts[1].n)
        THEN /\ pc = "done"
             /\ result.err.kind = "ErrInvalidConfigOption"
             /\ cfg = NewConfig
        ELSE /\ Has(cfg.params, "_busy_timeout")
             /\ cfg.params["_busy_timeout"] = ExactTimes(opts[1].n, 1000)

\* what holds of the code: the same on a 32-bit platform, and on a 64-bit
\* platform up to MaxSeconds
C12_BusyTimeoutExactInRange ==
    (/\ OnlyOptionApplied("WithBusyTimeoutSeconds")
     /\ \/ IntSize(opts[1].n) = 32
        \/ IsNeg(opts[1].n)
        \/ WordLeq(opts[1].n, MaxSeconds)) =>
        IF IsNeg(opts[1].n)
        THEN /\ pc = "done"
             /\ result.err.kind = "ErrInvalidConfigOption"
             /\ cfg = NewConfig
        ELSE /\ Has(cfg.params, "_busy_timeout")
             /\ cfg.params["_busy_timeout"] = ExactTimes(opts[1].n, 1000)

\* the failing case: math.MaxInt seconds on a 64-bit platform become -1000
C12_FailingInput ==
    /\ opts = << IntOption("WithBusyTimeoutSeconds", MaxInt(4)) >>
    /\ pc = "done"
    /\ result.db
    /\ cfg.params["_busy_timeout"] = "-1000"

(***************************************************************************)
(* C13.  As claimed: WithCacheSizeMiB(mib) sets _cache_size to "-" and the *)
(* decimal of exactly mib * 1024 for every mib > 0 of the int type of the  *)
(* platform, and the default is "-32768".  The product wraps at the width  *)
(* of int, on either platform.                                             *)
(***************************************************************************)
C13_CacheSizeNegativeKiB ==
    /\ OnlyOptionApplied("WithCacheSizeMiB") =>
           IF IsNeg(opts[1].n) \/ IsZero(opts[1].n)
           THEN /\ pc = "done"
                /\ result.err.kind = "ErrInvalidConfigOption"
                /\ cfg = NewConfig
           ELSE /\ Has(cfg.params, "_cache_size")
                /\ cfg.params["_cache_size"] = "-" \o ExactTimes(opts[1].n, 1024)
    /\ (opts = << >> /\ ConfigBuilt) =>
           cfg.params["_cache_size"] = "-" \o ExactTimes(GoInt(32), 1024)

\* what holds of the code: the same for mib up to math.MaxInt / 1024
C13_CacheSizeNegativeKiBInRange ==
    /\ (/\ OnlyOptionApplied("WithCacheSizeMiB")
        /\ \/ IsNeg(opts[1].n)
           \/ WordLeq(opts[1].n, DivMod(MaxInt(Len(opts[1].n)), 1024).quot)) =>
           IF IsNeg(opts[1].n) \/ IsZero(opts[1].n)
           THEN /\ pc = "done"
                /\ result.err.kind = "ErrInvalidConfigOption"
                /\ cfg = NewConfig
           ELSE /\ Has(cfg.params, "_cache_size")
                /\ cfg.params["_cache_size"] = "-" \o ExactTimes(opts[1].n, 1024)
    /\ (opts = << >> /\ ConfigBuilt) =>
           cfg.params["_cache_size"] = "-" \o ExactTimes(GoInt(32), 1024)

\* the failing cases: a doubled sign on either platform, and "-0"
C13_FailingInput ==
    /\ pc = "done"
    /\ result.db
    /\ \/ /\ opts = << IntOption("WithCacheSizeMiB", Pow2(53, 4)) >>
          /\ cfg.params["_cache_size"] = "--9223372036854775808"
       \/ /\ opts = << IntOption("WithCacheSizeMiB", Pow2(21, 2)) >>
          /\ cfg.params["_cache_size"] = "--2147483648"
       \/ /\ opts = << IntOption("WithCacheSizeMiB", Pow2(54, 4)) >>
          /\ cfg.params["_cache_size"] = "-0"

(***************************************************************************)
(* C14.  As claimed: a failure of a statement of the hook is surfaced to   *)
(* a caller of the handle that drives the creation of the connection, and  *)
(* never at open time: no open call fails because of it.  The ping of the  *)
(* open call creates the first connection, and a failure of its hook fails *)
(* the ping and the open call.                                             *)
(***************************************************************************)
C14_HookFailureNeverAtOpen ==
    /\ \A c \in ConnIds :
           conns[c].hookPc = "failed" =>
               \E u \in Callers : users[u].conn = c /\ users[u].err.kind = "ErrPragmaExec"
    /\ users[Opener].err.kind # "ErrPragmaExec"
    /\ result.err.cause # "ErrPragmaExec"

\* C14, amended: a failure of a statement of the hook is surfaced, as
\* ErrPragmaExec, to the user that drives the creation of the connection.  On the
\* first connection that user is the ping of the open call, which then fails
\* with ErrPingFailed wrapping the ErrPragmaExec, the handle closed; on a
\* connection created after the return it is a caller of the handle, and the
\* handle stays open.  An open call fails by the hook on the connection of its
\* ping only.
C14_HookFailureSurfacedToDriver ==
    /\ \A c \in ConnIds :
           conns[c].hookPc = "failed" =>
               \E u \in Users :
                   /\ users[u].conn = c
                   /\ users[u].pc = "failed"
                   /\ users[u].err.kind = "ErrPragmaExec"
                   /\ \A v \in Users \ {u} : users[v].conn # c
    /\ (pc = "done" /\ users[Opener].err.kind = "ErrPragmaExec") =>
           /\ ~result.db
           /\ result.err.kind = "ErrPingFailed"
           /\ result.err.cause = "ErrPragmaExec"
           /\ db.state = "closed"
    /\ result.err.cause = "ErrPragmaExec" =>
           /\ users[Opener].pc = "failed"
           /\ conns[users[Opener].conn].hookPc = "failed"
    /\ \A u \in Callers :
           users[u].err.kind = "ErrPragmaExec" =>
               /\ result = [db |-> TRUE, err |-> NoErr]
               /\ db.state = "open"
               /\ conns[users[u].conn].hookPc = "failed"
               /\ users[u].conn # users[Opener].conn

\* C14 witness: the pragma of the hook failed on the connection of the ping, and
\* the open call returned ErrPingFailed for it
C14_Witness ==
    /\ pc = "done"
    /\ ~result.db
    /\ result.err.kind = "ErrPingFailed"
    /\ result.err.cause = "ErrPragmaExec"
    /\ conns[1].hookPc = "failed"
    /\ conns[1].stmts = << "PRAGMA optimize", "PRAGMA temp_store=MEMORY" >>
    /\ faults = {"exec"}

(***************************************************************************)
(* C15.  As claimed: no process-wide state holds the cfg or the hook of an *)
(* open call that is over, whether it returned a handle that was closed    *)
(* since or failed at the ping, and the generated driver names never       *)
(* collide in the registry.  sql.Register keeps every driver, with its     *)
(* hook and the cfg the hook closes over, for the life of the process.     *)
(***************************************************************************)
C15_NoRetainedState ==
    /\ pc # "panic"
    /\ \A d \in drivers :
           /\ d.name = DriverName(now, cfgPtr)
           /\ pc \in {"open", "ping"} \/ (pc = "done" /\ db.state = "open")

\* the failing case: two calls are over, the handle of the first closed by its
\* caller, the second failed at the ping, and the registry holds both cfgs
C15_FailingInput ==
    /\ pc = "done"
    /\ ~result.db
    /\ result.err.kind = "ErrPingFailed"
    /\ db.state = "closed"
    /\ Cardinality(drivers) = 2
    /\ \E d \in drivers : d.name # DriverName(now, cfgPtr) /\ d.cfg.disableOptimize

\* what holds of the code: the names registered never collide, as no cfg that
\* the registry keeps reachable gives its address to a later one
C15_DriverNamesDistinct ==
    /\ pc # "panic"
    /\ \A d1, d2 \in drivers : (d1.name = d2.name \/ d1.ptr = d2.ptr) => d1 = d2
    /\ pc \in {"open", "ping"} => \E d \in drivers : d.name = DriverName(now, cfgPtr)

\* and the registry never gives up an entry
C15_RegistryNeverShrinks == [][drivers \subseteq drivers']_vars

(***************************************************************************)
(* C16.  The order of the options does not decide success: when the        *)
(* mutators of a call are of pairwise distinct constructors, with          *)
(* in-domain values, every permutation of them resolves to the             *)
(* configuration of the call, parameters, pragmas and DSN; when the call   *)
(* fails in its option pass, every permutation fails with                  *)
(* ErrInvalidConfigOption, and when it passes, every permutation passes.   *)
(***************************************************************************)
Perms(seq) ==
    {[i \in DOMAIN seq |-> seq[f[i]]] :
        f \in {g \in [DOMAIN seq -> DOMAIN seq] : \A i, j \in DOMAIN seq : g[i] = g[j] => i = j}}

DistinctConstructors == \A i, j \in DOMAIN opts : opts[i].name = opts[j].name => i = j

\* C16: every permutation of the options resolves as the call did
C16_OrderNotSignificant ==
    /\ (pc = "ping" /\ users[Opener].pc = "want") =>
           \A p \in Perms(opts) :
               LET r == Resolve(p, mode) IN
               /\ r.err = NoErr
               /\ (DistinctConstructors /\ AllInDomain) =>
                      /\ r.cfg = cfg
                      /\ \A order \in MapOrders(r.cfg.params) :
                             BuildDSN(filename, FinalOpts(r.cfg.params, order)) = dsn
    /\ (pc = "done" /\ ValidFilename /\ db = NoDB) =>
           \A p \in Perms(opts) : Resolve(p, mode).err.kind = "ErrInvalidConfigOption"

\* C16 witness: three mutators of three keys, in DSN and pragmas, were resolved
C16_Witness ==
    /\ pc = "ping"
    /\ users[Opener].pc = "want"
    /\ opts = << StringOption("WithTempStore", "file"),
                 IntOption("WithBusyTimeoutSeconds", GoInt(30)),
                 StringOption("WithJournalMode", "DELETE") >>
    /\ mode = modeReadWrite
    /\ cfg.pragmas["temp_store"] = "FILE"
    /\ cfg.params["_busy_timeout"] = "30000"
    /\ cfg.params["_journal_mode"] = "DELETE"

(***************************************************************************)
(* C17.  WithOptimize never fails and may come any number of times; it     *)
(* sets no key of params or pragmas; disableOptimize is the negation of    *)
(* the argument of the last WithOptimize applied, FALSE when there is      *)
(* none, and the hook issues PRAGMA optimize accordingly.                  *)
(***************************************************************************)
\* the positions among the first n options that hold a WithOptimize
OptimizeAt(n) == {j \in 1..n : opts[j].name = "WithOptimize"}

\* whether optimize is enabled after the first n options
OptimizeAfter(n) ==
    OptimizeAt(n) = {} \/ opts[CHOOSE j \in OptimizeAt(n) : \A k \in OptimizeAt(n) : k <= j].b

\* the options applied so far
Applied ==
    IF pc \in {"start", "options"} \/ (pc = "done" /\ db = NoDB) THEN idx - 1 ELSE Len(opts)

\* C17: the last WithOptimize decides, none fails, none sets a key
C17_WithOptimizeLastWins ==
    ValidFilename =>
        /\ pc # "start" =>
               /\ cfg.disableOptimize = ~OptimizeAfter(Applied)
               /\ pc \in {"options", "done"} /\ db = NoDB =>
                      DOMAIN cfg.params \cup DOMAIN cfg.pragmas =
                          {KeyOf[opts[j].name] : j \in {i \in 1..Applied : TargetsKey(opts[i])}}
        /\ (pc = "done" /\ db = NoDB) => opts[idx].name # "WithOptimize"
        /\ \A c \in ConnIds :
               conns[c].hookPc \in {"pragmas", "done"} =>
                   ((\E k \in DOMAIN conns[c].stmts : conns[c].stmts[k] = "PRAGMA optimize")
                        <=> OptimizeAfter(Len(opts)))

\* C17 witness: of three WithOptimize the last disabled optimize, and the hook of
\* the connection of the ping ran the pragma only
C17_Witness ==
    /\ opts = << BoolOption("WithOptimize", FALSE), BoolOption("WithOptimize", TRUE),
                 BoolOption("WithOptimize", FALSE) >>
    /\ pc = "done"
    /\ result.db
    /\ cfg.disableOptimize
    /\ conns[1].stmts = << "PRAGMA temp_store=MEMORY" >>

=============================================================================
